---- MODULE Spec2Model ----
(***************************************************************************)
(* A model of mapparse (src/src/lib.rs): MapFile::load, the stage-driven   *)
(* scanner of linker MAP files, and the export pass that writes the        *)
(* symbol listing.  Text is a sequence of one-character strings, so that   *)
(* splitting, searching, trimming and number parsing are modelled by what  *)
(* they do to the characters.                                              *)
(***************************************************************************)
EXTENDS Integers, Sequences, FiniteSets, TLC

\* ------------------------------------------------------------------------
\* Bounds of the model.
\* ------------------------------------------------------------------------

\* Rows per table (Sections, Publics by Value, Static symbols) of the
\* generated MAP files.
MaxRows == 2

\* Width of usize in the model.  The program's usize has 64 bits (32 on a
\* 32-bit target); the model keeps the arithmetic modulo 2^UsizeBits.
UsizeBits == 16

\* Number of times the export pass is run on one MapFile.
MaxExportRuns == 2

\* ------------------------------------------------------------------------
\* Program constants.
\* ------------------------------------------------------------------------

\* Address.seg is a u16.
U16Bits == 16

RECURSIVE Pow2(_)
Pow2(n) == IF n = 0 THEN 1 ELSE 2 * Pow2(n - 1)

UsizeModulus == Pow2(UsizeBits)
U16Modulus == Pow2(U16Bits)

\* ------------------------------------------------------------------------
\* Option<T>
\* ------------------------------------------------------------------------
None == [some |-> FALSE]
Some(x) == [some |-> TRUE, val |-> x]

\* ------------------------------------------------------------------------
\* str primitives.  Offsets are 0-based as in Rust; -1 stands for None.
\* ------------------------------------------------------------------------

\* &s[a..b]
Slice(s, a, b) == SubSeq(s, a + 1, b)

\* str::find(pat): the offset of the first occurrence of pat in s
Find(s, pat) ==
    LET at == { i \in 0..(Len(s) - Len(pat)) :
                  s[i + 1] = pat[1] /\ Slice(s, i, i + Len(pat)) = pat }
    IN  IF at = {} THEN -1 ELSE CHOOSE i \in at : \A j \in at : i <= j

\* str::contains(pat)
Contains(s, pat) == Find(s, pat) # -1

\* str::split(pat), collected: the pieces between the occurrences of pat
RECURSIVE Split(_, _)
Split(s, pat) ==
    LET i == Find(s, pat)
    IN  IF i = -1 THEN <<s>>
        ELSE <<Slice(s, 0, i)>> \o Split(Slice(s, i + Len(pat), Len(s)), pat)

\* char::is_whitespace, for the characters of the model's alphabet
IsWhitespace(c) == c \in {" ", "\t", "\n", "\r"}

RECURSIVE TrimStart(_)
TrimStart(s) ==
    IF s # <<>> /\ IsWhitespace(Head(s)) THEN TrimStart(Tail(s)) ELSE s

RECURSIVE TrimEnd(_)
TrimEnd(s) ==
    IF s # <<>> /\ IsWhitespace(s[Len(s)])
    THEN TrimEnd(SubSeq(s, 1, Len(s) - 1))
    ELSE s

\* str::trim
Trim(s) == TrimEnd(TrimStart(s))

\* char::to_digit(radix): the value of a digit character, -1 if it is none
DigitValue(c) ==
    CASE c = "0" -> 0 [] c = "1" -> 1 [] c = "2" -> 2 [] c = "3" -> 3
      [] c = "4" -> 4 [] c = "5" -> 5 [] c = "6" -> 6 [] c = "7" -> 7
      [] c = "8" -> 8 [] c = "9" -> 9
      [] c \in {"a", "A"} -> 10 [] c \in {"b", "B"} -> 11
      [] c \in {"c", "C"} -> 12 [] c \in {"d", "D"} -> 13
      [] c \in {"e", "E"} -> 14 [] c \in {"f", "F"} -> 15
      [] OTHER -> 36

ToDigit(c, radix) == IF DigitValue(c) < radix THEN DigitValue(c) ELSE -1

\* The digit loop of from_str_radix: acc * radix + digit, failing on a
\* character that is no digit and on a value that does not fit the type.
RECURSIVE ParseDigits(_, _, _, _)
ParseDigits(s, radix, modulus, acc) ==
    IF s = <<>> THEN Some(acc)
    ELSE LET d == ToDigit(Head(s), radix)
         IN  IF d = -1 THEN None
             ELSE IF acc * radix + d >= modulus THEN None
             ELSE ParseDigits(Tail(s), radix, modulus, acc * radix + d)

\* {unsigned}::from_str_radix(s, radix): empty input and a lone sign fail, a
\* leading '+' is accepted, a leading '-' is an invalid digit.
FromStrRadix(s, radix, modulus) ==
    IF s = <<>> THEN None
    ELSE IF Len(s) = 1 /\ Head(s) \in {"+", "-"} THEN None
    ELSE IF Head(s) = "+" THEN ParseDigits(Tail(s), radix, modulus, 0)
    ELSE ParseDigits(s, radix, modulus, 0)

\* usize::from_str_radix(s, 16)
UsizeFromHex(s) == FromStrRadix(s, 16, UsizeModulus)

\* str::parse::<u16>()
ParseU16(s) == FromStrRadix(s, 10, U16Modulus)

\* Display for usize: the decimal digits of n
DecimalDigit(d) ==
    CASE d = 0 -> "0" [] d = 1 -> "1" [] d = 2 -> "2" [] d = 3 -> "3"
      [] d = 4 -> "4" [] d = 5 -> "5" [] d = 6 -> "6" [] d = 7 -> "7"
      [] d = 8 -> "8" [] d = 9 -> "9"

RECURSIVE ToDecimal(_)
ToDecimal(n) ==
    IF n < 10 THEN <<DecimalDigit(n)>>
    ELSE ToDecimal(n \div 10) \o <<DecimalDigit(n % 10)>>

\* ------------------------------------------------------------------------
\* Arithmetic on usize.  An overflowing `-` or `+` panics in a build with
\* overflow checks (debug) and wraps in a build without them (release).
\* ------------------------------------------------------------------------
Builds == {"debug", "release"}

UsizeSub(a, b, build) ==
    IF a >= b THEN [ok |-> TRUE, val |-> a - b]
    ELSE IF build = "debug" THEN [ok |-> FALSE, val |-> 0]
    ELSE [ok |-> TRUE, val |-> (a - b) % UsizeModulus]

UsizeAdd(a, b, build) ==
    IF a + b < UsizeModulus THEN [ok |-> TRUE, val |-> a + b]
    ELSE IF build = "debug" THEN [ok |-> FALSE, val |-> 0]
    ELSE [ok |-> TRUE, val |-> (a + b) % UsizeModulus]

\* ------------------------------------------------------------------------
\* What handling one line does: nothing, a record appended, a header field
\* set, the stage changed, or the parse ended by an Err or by a panic.
\* ------------------------------------------------------------------------
Skip == [kind |-> "skip"]
Failure(msg) == [kind |-> "Err", msg |-> msg]
Panic(msg) == [kind |-> "panic", msg |-> msg]
Record(rec) == [kind |-> "record", rec |-> rec]

Failed(o) == o.kind \in {"Err", "panic"}

\* data.split(' ') with the empty substrings skipped
Tokens(data) == SelectSeq(Split(data, <<" ">>), LAMBDA t : t # <<>>)

\* IsDataLine testing for any digit.
IsDataLine_digit(data) ==
    \E d \in {"0", "1", "2", "3", "4", "5", "6", "7", "8", "9"} :
        Contains(data, <<d>>)

\* IsDataLine testing for another digit.
IsDataLine_one(data) == Contains(data, <<"1">>)

\* hacky way to know we are on an actual data line
IsDataLine(data) == Contains(data, <<"0">>)

\* The segment:offset token: split on ':', index 0 and 1 (a panic when there
\* is no ':'), segment decimal u16, address hexadecimal usize.
ParseAddress(substring) ==
    LET addrstr == Split(substring, <<":">>)
    IN  IF Len(addrstr) < 2 THEN Panic("index out of bounds")
        ELSE LET seg == ParseU16(addrstr[1])
                 addr == UsizeFromHex(addrstr[2])
             IN  IF ~seg.some THEN Failure("unable to parse segment")
                 ELSE IF ~addr.some THEN Failure("unable to parse address")
                 ELSE Record([seg |-> seg.val, addr |-> addr.val])

\* ------------------------------------------------------------------------
\* Stage::Sections
\* ------------------------------------------------------------------------
\* SectionClass taking any other class for DATA.
SectionClass_default(substring) ==
    IF substring = <<"C", "O", "D", "E">> THEN Record("Code")
    ELSE Record("Data")

SectionClass(substring) ==
    IF substring = <<"C", "O", "D", "E">> THEN Record("Code")
    ELSE IF substring = <<"D", "A", "T", "A">> THEN Record("Data")
    ELSE Panic("unrecognized section class")

\* One iteration of the loop over the substrings of a Sections line.
SectionToken(acc, substring) ==
    CASE acc.section_stage = "Address" ->
            LET a == ParseAddress(substring)
            IN  IF Failed(a) THEN [acc EXCEPT !.fail = Some(a)]
                ELSE [acc EXCEPT !.address = Some(a.rec),
                                 !.section_stage = "Length"]
      [] acc.section_stage = "Length" ->
            LET l == UsizeFromHex(Slice(substring, 0, Len(substring) - 1))
            IN  IF ~l.some
                THEN [acc EXCEPT !.fail = Some(Failure("unable to parse length"))]
                ELSE [acc EXCEPT !.length = Some(l.val),
                                 !.section_stage = "Symbol"]
      [] acc.section_stage = "Symbol" ->
            [acc EXCEPT !.symbol = Some(substring), !.section_stage = "Class"]
      [] acc.section_stage = "Class" ->
            LET c == SectionClass(substring)
            IN  IF Failed(c) THEN [acc EXCEPT !.fail = Some(c)]
                ELSE [acc EXCEPT !.class = Some(c.rec)]

RECURSIVE SectionTokens(_, _)
SectionTokens(toks, acc) ==
    IF toks = <<>> \/ acc.fail.some THEN acc
    ELSE SectionTokens(Tail(toks), SectionToken(acc, Head(toks)))

\* sections.push(Section { .. }) with the four `context(..)?` in field order
SectionRecord(acc) ==
    IF ~acc.address.some THEN Failure("no address was found")
    ELSE IF ~acc.length.some THEN Failure("no length was found")
    ELSE IF ~acc.symbol.some THEN Failure("no symbol was found")
    ELSE IF ~acc.class.some THEN Failure("no class was found")
    ELSE Record([addr |-> acc.address.val, len |-> acc.length.val,
                 name |-> acc.symbol.val, class |-> acc.class.val])

\* SectionsLine with the sentinel leading to the wrong stage.
SectionsLine_skip_stage(data) ==
    IF Contains(data, <<"P","u","b","l","i","c","s"," ","b","y"," ","V","a","l","u","e">>)
    THEN [kind |-> "stage", stage |-> "StaticSymbols", entry_point |-> None]
    ELSE IF ~IsDataLine(data) THEN Skip
    ELSE LET acc == SectionTokens(Tokens(data),
                        [section_stage |-> "Address", address |-> None,
                         length |-> None, symbol |-> None, class |-> None,
                         fail |-> None])
         IN  IF acc.fail.some THEN acc.fail.val ELSE SectionRecord(acc)

\* The Sections arm of the match on the stage, for one line.
SectionsLine(data) ==
    IF Contains(data, <<"P","u","b","l","i","c","s"," ","b","y"," ","V","a","l","u","e">>)
    THEN [kind |-> "stage", stage |-> "Functions"]
    ELSE IF ~IsDataLine(data) THEN Skip
    ELSE LET acc == SectionTokens(Tokens(data),
                        [section_stage |-> "Address", address |-> None,
                         length |-> None, symbol |-> None, class |-> None,
                         fail |-> None])
         IN  IF acc.fail.some THEN acc.fail.val ELSE SectionRecord(acc)

\* ------------------------------------------------------------------------
\* Stage::Functions
\* ------------------------------------------------------------------------
Absolute == [kind |-> "Absolute"]
LibObj(lib, obj) == [kind |-> "LibObj", lib |-> lib, obj |-> obj]

NewSymbolAcc ==
    [function_stage |-> "Address", address |-> None, symbol |-> None,
     rva |-> None, flags |-> <<>>, libobj |-> None, fail |-> None]

\* The FunctionStage::Rva arm: the hex token, less the load address unless
\* the token's value is 0.
FunctionRva(substring, load_address, build) ==
    LET rva_with_base == UsizeFromHex(substring)
    IN  IF ~rva_with_base.some THEN Failure("unable to parse rva")
        ELSE IF rva_with_base.val = 0 THEN Record(0)
        ELSE IF ~load_address.some THEN Panic("unwrap on a None value")
        ELSE LET d == UsizeSub(rva_with_base.val, load_address.val, build)
             IN  IF d.ok THEN Record(d.val)
                 ELSE Panic("attempt to subtract with overflow")

\* FunctionLibObj taking <absolute> for the name of an object.
FunctionLibObj_absolute_as_obj(acc, substring) ==
    IF Len(substring) = 1
    THEN [acc EXCEPT !.flags = Append(acc.flags, substring)]
    ELSE LET libobjstr == Split(substring, <<":">>)
         IN  IF Len(libobjstr) = 1
             THEN [acc EXCEPT !.libobj = Some(LibObj(None, libobjstr[1]))]
             ELSE [acc EXCEPT
                     !.libobj = Some(LibObj(Some(libobjstr[1]), libobjstr[2]))]

\* The FunctionStage::LibObj arm: <absolute>, a flag, or lib:obj.
FunctionLibObj(acc, substring) ==
    IF Contains(substring, <<"<","a","b","s","o","l","u","t","e",">">>)
    THEN [acc EXCEPT !.libobj = Some(Absolute)]
    ELSE IF Len(substring) = 1
    THEN [acc EXCEPT !.flags = Append(acc.flags, substring)]
    ELSE LET libobjstr == Split(substring, <<":">>)
         IN  IF Len(libobjstr) = 1
             THEN [acc EXCEPT !.libobj = Some(LibObj(None, libobjstr[1]))]
             ELSE [acc EXCEPT
                     !.libobj = Some(LibObj(Some(libobjstr[1]), libobjstr[2]))]

\* One iteration of the loop over the substrings of a Functions line.
FunctionToken(acc, substring, load_address, build) ==
    CASE acc.function_stage = "Address" ->
            LET a == ParseAddress(substring)
            IN  IF Failed(a) THEN [acc EXCEPT !.fail = Some(a)]
                ELSE [acc EXCEPT !.address = Some(a.rec),
                                 !.function_stage = "Symbol"]
      [] acc.function_stage = "Symbol" ->
            [acc EXCEPT !.symbol = Some(substring), !.function_stage = "Rva"]
      [] acc.function_stage = "Rva" ->
            LET r == FunctionRva(substring, load_address, build)
            IN  IF Failed(r) THEN [acc EXCEPT !.fail = Some(r)]
                ELSE [acc EXCEPT !.rva = Some(r.rec),
                                 !.function_stage = "LibObj"]
      [] acc.function_stage = "LibObj" -> FunctionLibObj(acc, substring)

RECURSIVE FunctionTokens(_, _, _, _)
FunctionTokens(toks, acc, load_address, build) ==
    IF toks = <<>> \/ acc.fail.some THEN acc
    ELSE FunctionTokens(Tail(toks),
                        FunctionToken(acc, Head(toks), load_address, build),
                        load_address, build)

\* FunctionRecord taking a symbol without provenance for an absolute one.
FunctionRecord_absolute_default(acc) ==
    IF ~acc.address.some THEN Failure("no address was found")
    ELSE IF ~acc.symbol.some THEN Failure("no symbol was found")
    ELSE IF ~acc.rva.some THEN Failure("no rva was found")
    ELSE Record([addr |-> acc.address.val, symbol |-> acc.symbol.val,
                 rva |-> acc.rva.val, flags |-> acc.flags,
                 libobj |-> IF acc.libobj.some THEN acc.libobj.val
                                               ELSE Absolute])

\* functions.push(Function { .. }) with the `context(..)?` in field order
FunctionRecord(acc) ==
    IF ~acc.address.some THEN Failure("no address was found")
    ELSE IF ~acc.symbol.some THEN Failure("no symbol was found")
    ELSE IF ~acc.rva.some THEN Failure("no rva was found")
    ELSE IF ~acc.libobj.some THEN Failure("no libobj was found")
    ELSE Record([addr |-> acc.address.val, symbol |-> acc.symbol.val,
                 rva |-> acc.rva.val, flags |-> acc.flags,
                 libobj |-> acc.libobj.val])

\* EntryPointTokens keeping the first substring that holds a '0'.
RECURSIVE EntryPointTokens_first(_, _)
EntryPointTokens_first(toks, entry) ==
    IF toks = <<>> \/ Failed(entry) \/ entry.kind = "record" THEN entry
    ELSE IF Contains(Head(toks), <<"0">>)
    THEN EntryPointTokens_first(Tail(toks), ParseAddress(Head(toks)))
    ELSE EntryPointTokens_first(Tail(toks), entry)

\* The loop over the substrings of the `entry point at` line: every
\* substring holding a '0' is parsed as the entry point, the last one stays.
RECURSIVE EntryPointTokens(_, _)
EntryPointTokens(toks, entry) ==
    IF toks = <<>> \/ Failed(entry) THEN entry
    ELSE IF Contains(Head(toks), <<"0">>)
    THEN EntryPointTokens(Tail(toks), ParseAddress(Head(toks)))
    ELSE EntryPointTokens(Tail(toks), entry)

\* The Functions arm of the match on the stage, for one line.
FunctionsLine(data, load_address, build) ==
    IF Contains(data, <<"e","n","t","r","y"," ","p","o","i","n","t"," ","a","t">>)
    THEN LET e == EntryPointTokens(Tokens(data), Skip)
         IN  IF Failed(e) THEN e
             ELSE [kind |-> "stage", stage |-> "StaticSymbols",
                   entry_point |-> IF e.kind = "record" THEN Some(e.rec)
                                                        ELSE None]
    ELSE IF ~IsDataLine(data) THEN Skip
    ELSE LET acc == FunctionTokens(Tokens(data), NewSymbolAcc,
                                   load_address, build)
         IN  IF acc.fail.some THEN acc.fail.val ELSE FunctionRecord(acc)

\* ------------------------------------------------------------------------
\* Stage::StaticSymbols ("reused code from function stage")
\* ------------------------------------------------------------------------
\* StaticSymbolRva subtracting the load address from an Rva+Base of 0 too.
StaticSymbolRva_zero_subtracted(substring, load_address, build) ==
    LET rva_with_base == UsizeFromHex(substring)
    IN  IF ~rva_with_base.some THEN Failure("unable to parse rva")
        ELSE IF ~load_address.some THEN Panic("unwrap on a None value")
        ELSE LET d == UsizeSub(rva_with_base.val, load_address.val, build)
             IN  IF d.ok THEN Record(d.val)
                 ELSE Panic("attempt to subtract with overflow")

StaticSymbolRva(substring, load_address, build) ==
    LET rva_with_base == UsizeFromHex(substring)
    IN  IF ~rva_with_base.some THEN Failure("unable to parse rva")
        ELSE IF rva_with_base.val = 0 THEN Record(0)
        ELSE IF ~load_address.some THEN Panic("unwrap on a None value")
        ELSE LET d == UsizeSub(rva_with_base.val, load_address.val, build)
             IN  IF d.ok THEN Record(d.val)
                 ELSE Panic("attempt to subtract with overflow")

\* StaticSymbolLibObj taking the last part of lib:obj for the object.
StaticSymbolLibObj_last_part(acc, substring) ==
    IF Contains(substring, <<"<","a","b","s","o","l","u","t","e",">">>)
    THEN [acc EXCEPT !.libobj = Some(Absolute)]
    ELSE IF Len(substring) = 1
    THEN [acc EXCEPT !.flags = Append(acc.flags, substring)]
    ELSE LET libobjstr == Split(substring, <<":">>)
         IN  IF Len(libobjstr) = 1
             THEN [acc EXCEPT !.libobj = Some(LibObj(None, libobjstr[1]))]
             ELSE [acc EXCEPT
                     !.libobj = Some(LibObj(Some(libobjstr[1]),
                                            libobjstr[Len(libobjstr)]))]

StaticSymbolLibObj(acc, substring) ==
    IF Contains(substring, <<"<","a","b","s","o","l","u","t","e",">">>)
    THEN [acc EXCEPT !.libobj = Some(Absolute)]
    ELSE IF Len(substring) = 1
    THEN [acc EXCEPT !.flags = Append(acc.flags, substring)]
    ELSE LET libobjstr == Split(substring, <<":">>)
         IN  IF Len(libobjstr) = 1
             THEN [acc EXCEPT !.libobj = Some(LibObj(None, libobjstr[1]))]
             ELSE [acc EXCEPT
                     !.libobj = Some(LibObj(Some(libobjstr[1]), libobjstr[2]))]

StaticSymbolToken(acc, substring, load_address, build) ==
    CASE acc.function_stage = "Address" ->
            LET a == ParseAddress(substring)
            IN  IF Failed(a) THEN [acc EXCEPT !.fail = Some(a)]
                ELSE [acc EXCEPT !.address = Some(a.rec),
                                 !.function_stage = "Symbol"]
      [] acc.function_stage = "Symbol" ->
            [acc EXCEPT !.symbol = Some(substring), !.function_stage = "Rva"]
      [] acc.function_stage = "Rva" ->
            LET r == StaticSymbolRva(substring, load_address, build)
            IN  IF Failed(r) THEN [acc EXCEPT !.fail = Some(r)]
                ELSE [acc EXCEPT !.rva = Some(r.rec),
                                 !.function_stage = "LibObj"]
      [] acc.function_stage = "LibObj" -> StaticSymbolLibObj(acc, substring)

RECURSIVE StaticSymbolTokens(_, _, _, _)
StaticSymbolTokens(toks, acc, load_address, build) ==
    IF toks = <<>> \/ acc.fail.some THEN acc
    ELSE StaticSymbolTokens(Tail(toks),
                            StaticSymbolToken(acc, Head(toks), load_address, build),
                            load_address, build)

StaticSymbolRecord(acc) ==
    IF ~acc.address.some THEN Failure("no address was found")
    ELSE IF ~acc.symbol.some THEN Failure("no symbol was found")
    ELSE IF ~acc.rva.some THEN Failure("no rva was found")
    ELSE IF ~acc.libobj.some THEN Failure("no libobj was found")
    ELSE Record([addr |-> acc.address.val, symbol |-> acc.symbol.val,
                 rva |-> acc.rva.val, flags |-> acc.flags,
                 libobj |-> acc.libobj.val])

\* The StaticSymbols arm of the match on the stage, for one line.
StaticSymbolsLine(data, load_address, build) ==
    IF ~IsDataLine(data) THEN Skip
    ELSE LET acc == StaticSymbolTokens(Tokens(data), NewSymbolAcc,
                                       load_address, build)
         IN  IF acc.fail.some THEN acc.fail.val ELSE StaticSymbolRecord(acc)

\* ------------------------------------------------------------------------
\* Stage::Header
\* ------------------------------------------------------------------------

\* HeaderTimestamp looking for the last ')' of the line.
HeaderTimestamp_last_paren(data) ==
    LET begin == Find(data, <<"(">>)
        ends == { i \in 0..(Len(data) - 1) : data[i + 1] = ")" }
        end == IF ends = {} THEN -1
               ELSE CHOOSE i \in ends : \A j \in ends : j <= i
    IN  IF begin = -1 \/ end = -1
        THEN Failure("there was no timestamp on line 3")
        ELSE IF end = 0 \/ begin + 1 > end - 1
        THEN Panic("slice index out of range")
        ELSE [kind |-> "set", field |-> "timestamp",
              val |-> Slice(data, begin + 1, end - 1)]

\* Line 3: the text from after the first '(' to one short of the first ')'.
\* The slice panics when its start lies after its end; `end - 1` on end = 0
\* overflows (a panic, or a wrap to an end beyond the line: a panic too).
HeaderTimestamp(data) ==
    LET begin == Find(data, <<"(">>)
        end == Find(data, <<")">>)
    IN  IF begin = -1 \/ end = -1
        THEN Failure("there was no timestamp on line 3")
        ELSE IF end = 0 \/ begin + 1 > end - 1
        THEN Panic("slice index out of range")
        ELSE [kind |-> "set", field |-> "timestamp",
              val |-> Slice(data, begin + 1, end - 1)]

\* HeaderLoadAddress passing over a line 5 without the marker.
HeaderLoadAddress_skip_unmarked(data) ==
    LET at == Find(data, <<"i", "s", " ">>)
    IN  IF at = -1 THEN Skip
        ELSE LET v == UsizeFromHex(Slice(data, at + 3, Len(data)))
             IN  IF ~v.some
                 THEN Failure("unable to get preferred load address from line 5")
                 ELSE [kind |-> "set", field |-> "load_address", val |-> v.val]

\* HeaderLoadAddress taking a number it cannot read for 0.
HeaderLoadAddress_zero_default(data) ==
    LET at == Find(data, <<"i", "s", " ">>)
    IN  IF at = -1
        THEN Failure("there was no preferred load address statement on line 5")
        ELSE LET v == UsizeFromHex(Slice(data, at + 3, Len(data)))
             IN  [kind |-> "set", field |-> "load_address",
                  val |-> IF v.some THEN v.val ELSE 0]

\* Line 5: the hex number after "is ".
HeaderLoadAddress(data) ==
    LET at == Find(data, <<"i", "s", " ">>)
    IN  IF at = -1
        THEN Failure("there was no preferred load address statement on line 5")
        ELSE LET v == UsizeFromHex(Slice(data, at + 3, Len(data)))
             IN  IF ~v.some
                 THEN Failure("unable to get preferred load address from line 5")
                 ELSE [kind |-> "set", field |-> "load_address", val |-> v.val]

\* HeaderLine leaving the header one line early.
HeaderLine_at_six(line, data) ==
    CASE line = 1 -> [kind |-> "set", field |-> "filename", val |-> Trim(data)]
      [] line = 3 -> HeaderTimestamp(data)
      [] line = 5 -> HeaderLoadAddress(data)
      [] line = 6 -> [kind |-> "stage", stage |-> "Sections"]
      [] OTHER -> Skip

\* The Header arm of the match on the stage, for line number `line`.
HeaderLine(line, data) ==
    CASE line = 1 -> [kind |-> "set", field |-> "filename", val |-> Trim(data)]
      [] line = 3 -> HeaderTimestamp(data)
      [] line = 5 -> HeaderLoadAddress(data)
      [] line = 7 -> [kind |-> "stage", stage |-> "Sections"]
      [] OTHER -> Skip

\* ------------------------------------------------------------------------
\* Ok(MapFile { .. }) after the loop, with the `context(..)?` in field order
\* ------------------------------------------------------------------------
\* MakeMapFile with a default for a missing entry point.
MakeMapFile_default_entry(file, entry, load, time, secs, funs, stats) ==
    IF ~file.some THEN Failure("filename not found")
    ELSE IF ~load.some THEN Failure("preferred load address not found")
    ELSE IF ~time.some THEN Failure("timestamp not found")
    ELSE Record([file_name |-> file.val,
                 entrypoint |-> IF entry.some THEN entry.val
                                ELSE [seg |-> 0, addr |-> 0],
                 preferred_load_addr |-> load.val,
                 timestamp |-> time.val,
                 sections |-> secs,
                 functions |-> funs,
                 static_symbols |-> stats])

MakeMapFile(file, entry, load, time, secs, funs, stats) ==
    IF ~file.some THEN Failure("filename not found")
    ELSE IF ~entry.some THEN Failure("entrypoint not found")
    ELSE IF ~load.some THEN Failure("preferred load address not found")
    ELSE IF ~time.some THEN Failure("timestamp not found")
    ELSE Record([file_name |-> file.val,
                 entrypoint |-> entry.val,
                 preferred_load_addr |-> load.val,
                 timestamp |-> time.val,
                 sections |-> secs,
                 functions |-> funs,
                 static_symbols |-> stats])

\* ------------------------------------------------------------------------
\* The export pass
\* ------------------------------------------------------------------------

\* The characters fix_name_for_ida keeps.
AllowedChars ==
    <<"_", "$", "?", "@", "0", "1", "2", "3", "4", "5", "6", "7", "8", "9",
      "A", "B", "C", "D", "E", "F", "G", "H", "I", "J", "K", "L", "M", "N",
      "O", "P", "Q", "R", "S", "T", "U", "V", "W", "X", "Y", "Z", "a", "b",
      "c", "d", "e", "f", "g", "h", "i", "j", "k", "l", "m", "n", "o", "p",
      "q", "r", "s", "t", "u", "v", "w", "x", "y">>

FixChar(x) == IF Contains(AllowedChars, <<x>>) THEN x ELSE "_"

\* fix_name_for_ida putting `_` before a character it should replace.
RECURSIVE fix_name_for_ida_escape(_)
fix_name_for_ida_escape(name) ==
    IF name = <<>> THEN <<>>
    ELSE (IF Contains(AllowedChars, <<Head(name)>>) THEN <<Head(name)>>
          ELSE <<"_", Head(name)>>)
         \o fix_name_for_ida_escape(Tail(name))

\* fix_name_for_ida: name.chars().map(..).collect()
fix_name_for_ida(name) == [i \in 1..Len(name) |-> FixChar(name[i])]

\* pieces[1] :: pieces[2] :: ..
RECURSIVE JoinScope(_)
JoinScope(pieces) ==
    IF Len(pieces) = 1 THEN pieces[1]
    ELSE pieces[1] \o <<":", ":">> \o JoinScope(Tail(pieces))

Reverse(s) == [i \in 1..Len(s) |-> s[Len(s) + 1 - i]]

\* msvc_demangler::demangle(symbol, NAME_ONLY), the external demangler, for
\* the plain qualified names ?name@scope@..@@type: the scopes outermost
\* first, joined by "::".  Any other text is not demangled.
demangle(symbol) ==
    LET at == Find(symbol, <<"@", "@">>)
    IN  IF symbol = <<>> \/ Head(symbol) # "?" \/ at < 2 THEN None
        ELSE LET pieces == Split(Slice(symbol, 1, at), <<"@">>)
             IN  IF \E i \in 1..Len(pieces) : pieces[i] = <<>> THEN None
                 ELSE Some(JoinScope(Reverse(pieces)))

\* demangle(..).unwrap_or(symbol.to_owned())
DisplayName(symbol) ==
    IF demangle(symbol).some THEN demangle(symbol).val ELSE symbol

\* ExportLine writing the rva without the load address.
ExportLine_rva_only(rec, preferred_load_addr, build) ==
    Record(ToDecimal(rec.rva) \o <<" ">>
           \o fix_name_for_ida(DisplayName(rec.symbol)) \o <<"\n">>)

\* format!("{} {}\n", rva + preferred_load_addr, fix_name_for_ida(..))
ExportLine(rec, preferred_load_addr, build) ==
    LET a == UsizeAdd(rec.rva, preferred_load_addr, build)
    IN  IF ~a.ok THEN Panic("attempt to add with overflow")
        ELSE Record(ToDecimal(a.val) \o <<" ">>
                    \o fix_name_for_ida(DisplayName(rec.symbol)) \o <<"\n">>)

\* One of the two loops of export: a line pushed to output per record.
RECURSIVE ExportRecords(_, _, _, _)
ExportRecords(recs, preferred_load_addr, build, output) ==
    IF recs = <<>> \/ Failed(output) THEN output
    ELSE LET l == ExportLine(Head(recs), preferred_load_addr, build)
         IN  ExportRecords(Tail(recs), preferred_load_addr, build,
                           IF Failed(l) THEN l ELSE Record(output.rec \o l.rec))

\* ExportOutput with the two loops in the other order.
ExportOutput_statics_first(map, build) ==
    ExportRecords(map.functions, map.preferred_load_addr, build,
        ExportRecords(map.static_symbols, map.preferred_load_addr, build,
                      Record(<<>>)))

\* The text export writes to output.idasym: the functions, then the static
\* symbols.
ExportOutput(map, build) ==
    ExportRecords(map.static_symbols, map.preferred_load_addr, build,
        ExportRecords(map.functions, map.preferred_load_addr, build,
                      Record(<<>>)))

\* ------------------------------------------------------------------------
\* MAP files given to load.  The layout is the one of the comment heading
\* lib.rs: name, timestamp and load address on lines 1, 3 and 5, a caption
\* on line 7, then the three tables and their sentinel lines.
\* ------------------------------------------------------------------------
CRLF == <<"\r", "\n">>
LF == <<"\n">>

\* SplitLines splitting at every line feed.
SplitLines_lf(text) == Split(text, LF)

\* input.split("\r\n")
SplitLines(text) == Split(text, CRLF)

\* The lines, each followed by the line terminator `term`.
RECURSIVE JoinLines(_, _)
JoinLines(ls, term) ==
    IF ls = <<>> THEN <<>> ELSE Head(ls) \o term \o JoinLines(Tail(ls), term)

\* <name>
NameLine ==
    <<" ", "f", ".", "d", "l", "l">>

\* Timestamp is <timestamp> (<human_readable_timestamp>)
TimestampLine ==
    <<" ", "T", "i", "m", "e", "s", "t", "a", "m", "p", " ", "i", "s", " ",
      "5", "A", " ", "(", "T", "h", "u", ")">>

\* Preferred load address is <preferred_load>
LoadAddressLine ==
    <<" ", "P", "r", "e", "f", "e", "r", "r", "e", "d", " ", "l", "o", "a",
      "d", " ", "a", "d", "d", "r", "e", "s", "s", " ", "i", "s", " ", "1",
      "0">>

\* Start Length Name Class
SectionsCaption ==
    <<" ", "S", "t", "a", "r", "t", " ", "L", "e", "n", "g", "t", "h", " ",
      "N", "a", "m", "e", " ", "C", "l", "a", "s", "s">>

HeaderLines ==
    <<NameLine, <<>>, TimestampLine, <<>>, LoadAddressLine, <<>>,
      SectionsCaption>>

\* Address Publics by Value Rva+Base Lib:Object
PublicsCaption ==
    <<" ", " ", "A", "d", "d", "r", "e", "s", "s", " ", "P", "u", "b", "l",
      "i", "c", "s", " ", "b", "y", " ", "V", "a", "l", "u", "e", " ", "R",
      "v", "a", "+", "B", "a", "s", "e", " ", "L", "i", "b", ":", "O", "b",
      "j", "e", "c", "t">>

\* entry point at <seg>:<addr>
EntryPointLine ==
    <<" ", "e", "n", "t", "r", "y", " ", "p", "o", "i", "n", "t", " ", "a",
      "t", " ", "1", ":", "1", "0">>

\* Static symbols
StaticCaption ==
    <<" ", "S", "t", "a", "t", "i", "c", " ", "s", "y", "m", "b", "o", "l",
      "s">>

\* <seg>:<addr> <len> <section> <class>, the i-th row of the Sections table
\* (i:00 0i0H .si CODE, DATA for even i)
SectionRow(i) ==
    LET d == DecimalDigit(i)
    IN  <<" ", d, ":", "0", "0", " ", "0", d, "0", "H", " ", ".", "s", d, " ">>
        \o (IF i % 2 = 1 THEN <<"C", "O", "D", "E">>
                         ELSE <<"D", "A", "T", "A">>)

\* The symbol of the i-th public: a decorated C++ name, then C names.
DecoratedSymbol ==
    <<"?", "f", "@", "N", "@", "@", "Y", "A", "X", "X", "Z">>

FunctionSymbol(i) ==
    IF i = 1 THEN DecoratedSymbol ELSE <<"_", "f", "z", DecimalDigit(i)>>

\* <seg>:<addr> <symbol> <rva> <flags> <lib+obj>, the i-th row of the
\* Publics by Value table (1:i0 sym (i+1)0 f lib:oi, no flag and no library
\* for even i)
FunctionRow(i) ==
    LET d == DecimalDigit(i)
    IN  <<" ", "1", ":", d, "0", " ">> \o FunctionSymbol(i)
        \o <<" ", DecimalDigit(i + 1), "0", " ">>
        \o (IF i % 2 = 1 THEN <<"f", " ", "l", "i", "b", ":", "o", d>>
                         ELSE <<" ", " ", "o", d, ".", "o", "b", "j">>)

\* <seg>:<addr> <symbol> <rva> <flags> <obj>, the i-th row of the Static
\* symbols table (2:i0 s.i (i+2)0 f i oi)
StaticSymbolRow(i) ==
    LET d == DecimalDigit(i)
    IN  <<" ", "2", ":", d, "0", " ", "s", ".", d, " ",
          DecimalDigit(i + 2), "0", " ", "f", " ", "i", " ", "o", d>>

Rows(Row(_), n) == [i \in 1..n |-> Row(i)]

\* The lines after the header of a file with ns, nf and nt rows.
BodyLines(ns, nf, nt) ==
    Rows(SectionRow, ns) \o <<PublicsCaption>> \o Rows(FunctionRow, nf)
    \o <<EntryPointLine, StaticCaption>> \o Rows(StaticSymbolRow, nt)

FullLines == HeaderLines \o BodyLines(MaxRows, MaxRows, MaxRows)

InsertAt(ls, k, l) == SubSeq(ls, 1, k) \o <<l>> \o SubSeq(ls, k + 1, Len(ls))

\* Rows that may stand in a table of a well-formed file: one more section,
\* and an absolute symbol, whose Rva+Base is 0.
ExtraSectionRow ==
    <<" ", "6", ":", "0", "0", " ", "0", "6", "0", "H", " ", ".", "s", "6",
      " ", "C", "O", "D", "E">>

AbsoluteRow ==
    <<" ", "0", ":", "0", "0", " ", "_", "a", "b", "s", " ", "0", " ", "<",
      "a", "b", "s", "o", "l", "u", "t", "e", ">">>

\* The complete, well-formed files: every number of rows per table, and the
\* full file with one more row in one of its tables.
WellFormedInputs ==
    { JoinLines(HeaderLines \o BodyLines(ns, nf, nt), CRLF) :
        ns \in 0..MaxRows, nf \in 0..MaxRows, nt \in 0..MaxRows }
    \cup { JoinLines(InsertAt(FullLines, k, ExtraSectionRow), CRLF) :
             k \in 7..(7 + MaxRows) }
    \cup { JoinLines(InsertAt(FullLines, k, AbsoluteRow), CRLF) :
             k \in (8 + MaxRows)..(8 + 2 * MaxRows)
                   \cup (9 + 2 * MaxRows)..(10 + 3 * MaxRows) }

\* Files cut short after any number of lines, and one without the final
\* line terminator.
TruncatedInputs ==
    { JoinLines(SubSeq(FullLines, 1, n), CRLF) : n \in 0..Len(FullLines) - 1 }
    \cup { LET whole == JoinLines(FullLines, CRLF)
           IN  SubSeq(whole, 1, Len(whole) - 2) }

\* Lines that are out of place or malformed where they stand.
BadClassRow ==
    <<" ", "5", ":", "0", "0", " ", "0", "5", "0", "H", " ", ".", "s", "5",
      " ", "T", "E", "X", "T">>

UnderflowRow ==
    <<" ", "1", ":", "0", "0", " ", "_", "u", " ", "1", " ", "l", ":", "u">>

EntryPointNoZero ==
    <<" ", "e", "n", "t", "r", "y", " ", "p", "o", "i", "n", "t", " ", "a",
      "t", " ", "1", ":", "1", "1">>

NoColonRow ==
    <<" ", "1", "0", "0", " ", "x">>

MissingFieldRow ==
    <<" ", "1", ":", "0", "0", " ", "_", "m", " ", "2", "0">>

NoZeroRow ==
    <<" ", "1", ":", "1", "1", " ", "_", "n", " ", "1", "1", " ", "l", ":",
      "n">>

PublicsWithZero ==
    <<" ", "P", "u", "b", "l", "i", "c", "s", " ", "b", "y", " ", "V", "a",
      "l", "u", "e", " ", "0">>

OddLines ==
    { BadClassRow, ExtraSectionRow, AbsoluteRow, UnderflowRow,
      EntryPointNoZero, EntryPointLine, NoColonRow, MissingFieldRow,
      NoZeroRow, PublicsWithZero, PublicsCaption }

\* A complete file with one odd line put in anywhere after the header.
OddInputs ==
    { JoinLines(InsertAt(FullLines, k, l), CRLF) :
        k \in Len(HeaderLines)..Len(FullLines), l \in OddLines }

\* Files whose header is malformed.
NoTimestampLine ==
    <<" ", "T", "i", "m", "e", "s", "t", "a", "m", "p", " ", "i", "s", " ",
      "5", "A">>

EmptyTimestampLine ==
    <<" ", "T", "i", "m", "e", "s", "t", "a", "m", "p", " ", "i", "s", " ",
      "5", "A", " ", "(", ")">>

NoLoadAddressLine ==
    <<" ", "P", "r", "e", "f", "e", "r", "r", "e", "d", " ", "l", "o", "a",
      "d", " ", "a", "d", "d", "r", "e", "s", "s", " ", "1", "0">>

BadLoadAddressLine ==
    <<" ", "B", "a", "s", "e", " ", "i", "s", " ", "1", "g">>

BadHeaders ==
    { [HeaderLines EXCEPT ![3] = NoTimestampLine],
      [HeaderLines EXCEPT ![3] = EmptyTimestampLine],
      [HeaderLines EXCEPT ![5] = NoLoadAddressLine],
      [HeaderLines EXCEPT ![5] = BadLoadAddressLine],
      [HeaderLines EXCEPT ![7] = SectionRow(1)] }

BadHeaderInputs ==
    { JoinLines(h \o BodyLines(1, 1, 1), CRLF) : h \in BadHeaders }

\* Files with line-feed line endings: throughout, or after the header only.
LineFeedInputs ==
    { JoinLines(HeaderLines \o BodyLines(n, n, n), LF) : n \in 0..MaxRows }
    \cup { JoinLines(HeaderLines, CRLF) \o JoinLines(BodyLines(n, n, n), LF) :
             n \in 1..MaxRows }

\* Rows that end before their last fields, each put after the first row of
\* each table.
ShortSectionRow ==
    <<" ", "7", ":", "0", "0", " ", "0", "7", "0", "H", " ", ".", "s", "7">>

AddressOnlyRow ==
    <<" ", "1", ":", "0", "0">>

AddressSymbolRow ==
    <<" ", "1", ":", "0", "0", " ", "_", "m">>

FlagsOnlyRow ==
    <<" ", "1", ":", "0", "0", " ", "_", "m", " ", "2", "0", " ", "f">>

\* Rows with tokens after <absolute>, and with a provenance of three parts
\* between two flags.
AbsoluteThenLibRow ==
    <<" ", "0", ":", "0", "0", " ", "_", "a", " ", "0", " ", "<", "a", "b",
      "s", "o", "l", "u", "t", "e", ">", " ", "l", ":", "a">>

AbsoluteThenFlagRow ==
    <<" ", "0", ":", "0", "0", " ", "_", "b", " ", "0", " ", "<", "a", "b",
      "s", "o", "l", "u", "t", "e", ">", " ", "f">>

ThreePartRow ==
    <<" ", "1", ":", "0", "0", " ", "_", "t", " ", "2", "0", " ", "x", " ",
      "a", ":", "b", ":", "c", " ", "y">>

\* `entry point at` lines with two fields holding a '0', and with one that
\* is no segment:offset.
EntryPointTwoFields ==
    <<" ", "e", "n", "t", "r", "y", " ", "p", "o", "i", "n", "t", " ", "a",
      "t", " ", "1", ":", "1", "0", " ", "2", ":", "2", "0">>

EntryPointNoColon ==
    <<" ", "e", "n", "t", "r", "y", " ", "p", "o", "i", "n", "t", " ", "a",
      "t", " ", "0", "x">>

AddressLengthRow ==
    <<" ", "7", ":", "0", "0", " ", "0", "7", "0", "H">>

\* A row with a flag and no provenance whose Rva+Base is below the load
\* address.
UnderflowShortRow ==
    <<" ", "1", ":", "0", "0", " ", "_", "v", " ", "1", " ", "f">>

TableLines ==
    { ShortSectionRow, AddressOnlyRow, AddressSymbolRow, FlagsOnlyRow,
      AbsoluteThenLibRow, AbsoluteThenFlagRow, ThreePartRow,
      EntryPointTwoFields, EntryPointNoColon, UnderflowShortRow,
      AddressLengthRow }

\* A complete file with one of these lines after the first row of its
\* Sections, Publics by Value or Static symbols table.
TableInputs ==
    { JoinLines(InsertAt(FullLines, k, l), CRLF) :
        k \in {8, 9 + MaxRows, 11 + 2 * MaxRows}, l \in TableLines }

\* Headers whose line 3 has one parenthesis only, a second `)`, or the `)`
\* first; whose line 5 has a space after the number, a sign before it, or
\* the number 0;
\* whose line 7 is the
\* caption of the Publics by Value table.
OpenTimestampLine ==
    <<" ", "T", "i", "m", "e", "s", "t", "a", "m", "p", " ", "i", "s", " ",
      "5", "A", " ", "(", "T", "h", "u">>

ClosedTimestampLine ==
    <<" ", "T", "i", "m", "e", "s", "t", "a", "m", "p", " ", "i", "s", " ",
      "5", "A", " ", "T", "h", "u", ")">>

TwoParenTimestampLine ==
    <<" ", "T", "i", "m", "e", "s", "t", "a", "m", "p", " ", "i", "s", " ",
      "5", "A", " ", "(", "T", "h", "u", ")", " ", "(", "x", ")">>

ReversedTimestampLine ==
    <<" ", "T", "i", "m", "e", "s", "t", "a", "m", "p", " ", "i", "s", " ",
      "5", "A", " ", ")", "T", "h", "u", "(">>

TrailingLoadAddressLine ==
    <<" ", "P", "r", "e", "f", "e", "r", "r", "e", "d", " ", "l", "o", "a",
      "d", " ", "a", "d", "d", "r", "e", "s", "s", " ", "i", "s", " ", "1",
      "0", " ">>

SignedLoadAddressLine ==
    <<" ", "P", "r", "e", "f", "e", "r", "r", "e", "d", " ", "l", "o", "a",
      "d", " ", "a", "d", "d", "r", "e", "s", "s", " ", "i", "s", " ", "+",
      "1", "0">>

ZeroLoadAddressLine ==
    <<" ", "P", "r", "e", "f", "e", "r", "r", "e", "d", " ", "l", "o", "a",
      "d", " ", "a", "d", "d", "r", "e", "s", "s", " ", "i", "s", " ", "0">>

OddHeaders ==
    { [HeaderLines EXCEPT ![3] = OpenTimestampLine],
      [HeaderLines EXCEPT ![3] = ClosedTimestampLine],
      [HeaderLines EXCEPT ![3] = TwoParenTimestampLine],
      [HeaderLines EXCEPT ![3] = ReversedTimestampLine],
      [HeaderLines EXCEPT ![5] = TrailingLoadAddressLine],
      [HeaderLines EXCEPT ![5] = SignedLoadAddressLine],
      [HeaderLines EXCEPT ![5] = ZeroLoadAddressLine],
      [HeaderLines EXCEPT ![7] = PublicsCaption] }

OddHeaderInputs ==
    { JoinLines(h \o BodyLines(1, 1, 1), CRLF) : h \in OddHeaders }

Inputs ==
    WellFormedInputs \cup TruncatedInputs \cup OddInputs
    \cup BadHeaderInputs \cup LineFeedInputs
    \cup TableInputs \cup OddHeaderInputs

\* ------------------------------------------------------------------------
\* Names given to fix_name_for_ida: every text of at most MaxNameLen of
\* these characters, which hold kept and replaced characters of each kind.
\* ------------------------------------------------------------------------
MaxNameLen == 2

NameChars ==
    { "A", "Z", "a", "y", "z", "0", "9", "_", "$", "?", "@",
      " ", ":", ".", "<", "-", "\n" }

RECURSIVE Texts(_)
Texts(n) ==
    IF n = 0 THEN { <<>> }
    ELSE Texts(n - 1)
         \cup { Append(t, c) : t \in { u \in Texts(n - 1) : Len(u) = n - 1 },
                               c \in NameChars }

Names == Texts(MaxNameLen)

\* ------------------------------------------------------------------------
\* State
\* ------------------------------------------------------------------------
VARIABLES
    input,          \* the text given to load
    build,          \* whether the build checks arithmetic overflow
    lines,          \* input.split("\r\n")
    line,           \* the number of the line handled last (lines from 1)
    stage,          \* Stage::{Header, Sections, Functions, StaticSymbols}
    filename, timestamp, load_address, entry_point,    \* Option<..>
    sections, functions, static_symbols,               \* Vec<..>
    pc,             \* "scan" in the loop of load, "done" once load has ended
    result,         \* what load gave: Ok(MapFile), Err(..) or a panic
    handled,        \* per line handled: the stage that handled it, and how
    output,         \* the text of output.idasym, None before it is written
    runs,           \* how each run of export ended
    name,           \* the text given to fix_name_for_ida
    fixed           \* the results of fix_name_for_ida applied over and over

vars ==
    <<input, build, lines, line, stage, filename, timestamp, load_address,
      entry_point, sections, functions, static_symbols, pc, result, handled,
      output, runs, name, fixed>>

loadVars ==
    <<input, build, lines, line, stage, filename, timestamp, load_address,
      entry_point, sections, functions, static_symbols, pc, result, handled>>

Ok(map) == [kind |-> "Ok", map |-> map]

\* The locals of load as it enters the loop.
LoadStart ==
    /\ line = 0
    /\ stage = "Header"
    /\ filename = None
    /\ timestamp = None
    /\ load_address = None
    /\ entry_point = None
    /\ sections = <<>>
    /\ functions = <<>>
    /\ static_symbols = <<>>
    /\ result = [kind |-> "none"]
    /\ handled = <<>>

Init ==
    /\ input \in Inputs
    /\ build \in Builds
    /\ lines = SplitLines(input)
    /\ pc = "scan"
    /\ LoadStart
    /\ output = None
    /\ runs = <<>>
    /\ name = <<>>
    /\ fixed = <<>>

\* The effect of handling the next line with outcome o.
Apply(o) ==
    /\ line' = line + 1
    /\ handled' = Append(handled, [stage |-> stage, kind |-> o.kind])
    /\ stage' = IF o.kind = "stage" THEN o.stage ELSE stage
    /\ filename' = IF o.kind = "set" /\ o.field = "filename"
                   THEN Some(o.val) ELSE filename
    /\ timestamp' = IF o.kind = "set" /\ o.field = "timestamp"
                    THEN Some(o.val) ELSE timestamp
    /\ load_address' = IF o.kind = "set" /\ o.field = "load_address"
                       THEN Some(o.val) ELSE load_address
    /\ entry_point' = IF /\ o.kind = "stage"
                         /\ o.stage = "StaticSymbols"
                         /\ o.entry_point.some
                      THEN o.entry_point ELSE entry_point
    /\ sections' = IF o.kind = "record" /\ stage = "Sections"
                   THEN Append(sections, o.rec) ELSE sections
    /\ functions' = IF o.kind = "record" /\ stage = "Functions"
                    THEN Append(functions, o.rec) ELSE functions
    /\ static_symbols' = IF o.kind = "record" /\ stage = "StaticSymbols"
                         THEN Append(static_symbols, o.rec)
                         ELSE static_symbols
    /\ pc' = IF Failed(o) THEN "done" ELSE "scan"
    /\ result' = IF Failed(o) THEN o ELSE result
    /\ UNCHANGED <<input, build, lines, output, runs, name, fixed>>

\* HasLine with the loop going on after a failure.
HasLine_after_failure == line < Len(lines)

\* The loop has a next line.
HasLine == pc = "scan" /\ line < Len(lines)

Header ==
    /\ HasLine
    /\ stage = "Header"
    /\ Apply(HeaderLine(line + 1, lines[line + 1]))

Sections ==
    /\ HasLine
    /\ stage = "Sections"
    /\ Apply(SectionsLine(lines[line + 1]))

Functions ==
    /\ HasLine
    /\ stage = "Functions"
    /\ Apply(FunctionsLine(lines[line + 1], load_address, build))

StaticSymbols ==
    /\ HasLine
    /\ stage = "StaticSymbols"
    /\ Apply(StaticSymbolsLine(lines[line + 1], load_address, build))

\* The lines are exhausted: Ok(MapFile { .. }) or the Err of a missing field.
Finish ==
    /\ pc = "scan"
    /\ line = Len(lines)
    /\ LET m == MakeMapFile(filename, entry_point, load_address, timestamp,
                            sections, functions, static_symbols)
       IN  result' = IF Failed(m) THEN m ELSE Ok(m.rec)
    /\ pc' = "done"
    /\ UNCHANGED <<input, build, lines, line, stage, filename, timestamp,
                   load_address, entry_point, sections, functions,
                   static_symbols, handled, output, runs, name, fixed>>

\* export: MapFile::load(..).unwrap(), the two loops, the write.
Export ==
    /\ pc = "done"
    /\ Len(runs) < MaxExportRuns
    /\ LET out == IF result.kind = "Ok" THEN ExportOutput(result.map, build)
                                        ELSE Panic("unwrap on an Err value")
       IN  /\ output' = IF Failed(out) THEN output ELSE Some(out.rec)
           /\ runs' = Append(runs, IF Failed(out) THEN "panic" ELSE "written")
    /\ UNCHANGED <<loadVars, name, fixed>>

Next == Header \/ Sections \/ Functions \/ StaticSymbols \/ Finish \/ Export

Spec == Init /\ [][Next]_vars

\* ------------------------------------------------------------------------
\* fix_name_for_ida on its own: a name, sanitized again and again.
\* ------------------------------------------------------------------------
MaxFixes == 2

FixInit ==
    /\ name \in Names
    /\ fixed = <<>>
    /\ input = <<>>
    /\ build = "debug"
    /\ lines = <<>>
    /\ pc = "fix"
    /\ LoadStart
    /\ output = None
    /\ runs = <<>>

FixName ==
    /\ pc = "fix"
    /\ Len(fixed) < MaxFixes
    /\ fixed' = Append(fixed, fix_name_for_ida(IF fixed = <<>> THEN name
                                               ELSE fixed[Len(fixed)]))
    /\ UNCHANGED <<loadVars, output, runs, name>>

FixNext == FixName

FixSpec == FixInit /\ [][FixNext]_vars

\* ------------------------------------------------------------------------
\* The Functions arm and the StaticSymbols arm on their own: one line and
\* one load address, handled by each of the two arms in either order.
\* ------------------------------------------------------------------------

\* The lines of the tables and the odd lines, and an empty line.
TokLines ==
    { FullLines[i] : i \in (Len(HeaderLines) + 1)..Len(FullLines) }
    \cup OddLines \cup TableLines \cup { <<>> }

\* Load addresses below, at and above the Rva+Base of the rows.
TokLoadAddresses == { 0, 16, 48 }

TokInit ==
    /\ input \in TokLines
    /\ build \in Builds
    /\ load_address \in { Some(a) : a \in TokLoadAddresses }
    /\ lines = <<input>>
    /\ line = 0
    /\ stage = "Functions"
    /\ pc = "tok"
    /\ filename = None
    /\ timestamp = None
    /\ entry_point = None
    /\ sections = <<>>
    /\ functions = <<>>
    /\ static_symbols = <<>>
    /\ result = [kind |-> "none"]
    /\ handled = <<>>
    /\ output = None
    /\ runs = <<>>
    /\ name = <<>>
    /\ fixed = <<>>

HandledBy(st) == \E i \in 1..Len(handled) : handled[i].stage = st

\* The line is handled by the Functions arm.
TokFunctions ==
    /\ pc = "tok"
    /\ ~HandledBy("Functions")
    /\ LET o == FunctionsLine(input, load_address, build)
       IN  /\ handled' = Append(handled, [stage |-> "Functions",
                                          kind |-> o.kind, outcome |-> o])
           /\ functions' = IF o.kind = "record" THEN Append(functions, o.rec)
                                                ELSE functions
    /\ UNCHANGED <<input, build, lines, line, stage, filename, timestamp,
                   load_address, entry_point, sections, static_symbols, pc,
                   result, output, runs, name, fixed>>

\* The line is handled by the StaticSymbols arm.
TokStaticSymbols ==
    /\ pc = "tok"
    /\ ~HandledBy("StaticSymbols")
    /\ LET o == StaticSymbolsLine(input, load_address, build)
       IN  /\ handled' = Append(handled, [stage |-> "StaticSymbols",
                                          kind |-> o.kind, outcome |-> o])
           /\ static_symbols' = IF o.kind = "record"
                                THEN Append(static_symbols, o.rec)
                                ELSE static_symbols
    /\ UNCHANGED <<input, build, lines, line, stage, filename, timestamp,
                   load_address, entry_point, sections, functions, pc,
                   result, output, runs, name, fixed>>

TokNext == TokFunctions \/ TokStaticSymbols

TokSpec == TokInit /\ [][TokNext]_vars

\* ------------------------------------------------------------------------
\* Properties.  What the lines of a file are is read off `lines` here
\* without the scanner: the tables by the position of their sentinel lines,
\* the fields of a row by its substrings.
\* ------------------------------------------------------------------------

\* The members of a set of numbers, smallest first.
RECURSIVE Ascending(_)
Ascending(S) ==
    IF S = {} THEN <<>>
    ELSE LET m == CHOOSE i \in S : \A j \in S : i <= j
         IN  <<m>> \o Ascending(S \ {m})

HasDigit(data) ==
    \E i \in 1..Len(data) :
        data[i] \in {"0", "1", "2", "3", "4", "5", "6", "7", "8", "9"}

HasText(data, text) ==
    \E i \in 0..(Len(data) - Len(text)) :
        \A j \in 1..Len(text) : data[i + j] = text[j]

FirstLine(S) == IF S = {} THEN Len(lines) + 1
                ELSE CHOOSE i \in S : \A j \in S : i <= j

\* The line with `Publics by Value` that ends the Sections table, and the
\* line with `entry point at` that ends the Publics by Value table.
PublicsAt ==
    FirstLine({ i \in 8..Len(lines) : HasText(lines[i], <<"P", "u", "b", "l", "i", "c", "s", " ", "b", "y", " ", "V", "a", "l", "u", "e">>) })

EntryPointAt ==
    FirstLine({ i \in (PublicsAt + 1)..Len(lines) :
                  HasText(lines[i], <<"e", "n", "t", "r", "y", " ", "p", "o", "i", "n", "t", " ", "a", "t">>) })

SectionsTable == 8..(PublicsAt - 1)
FunctionsTable == (PublicsAt + 1)..(EntryPointAt - 1)
StaticSymbolsTable == (EntryPointAt + 1)..Len(lines)

\* The qualifying data lines of a table, in line order.
DataLinesOf(table) == Ascending({ i \in table : HasDigit(lines[i]) })

\* The lines a stage handled with the given outcome, in line order.
HandledAs(st, kind) ==
    Ascending({ i \in 1..Len(handled) :
                  handled[i].stage = st /\ handled[i].kind = kind })

NoLineFailed == \A i \in 1..Len(handled) : ~Failed(handled[i])

\* C1: for every well-formed CRLF input, load returns a MapFile whose
\* sections, functions and static_symbols are the records of the qualifying
\* data lines of the Sections, Publics by Value and Static symbols tables:
\* as many records as qualifying lines, in line order, the k-th record made
\* from the k-th qualifying line.
LoadYieldsTheTables ==
    (pc = "done" /\ input \in WellFormedInputs) =>
        /\ result.kind = "Ok"
        /\ LET ss == DataLinesOf(SectionsTable)
               fs == DataLinesOf(FunctionsTable)
               ts == DataLinesOf(StaticSymbolsTable)
               map == result.map
           IN  /\ Len(map.sections) = Len(ss)
               /\ Len(map.functions) = Len(fs)
               /\ Len(map.static_symbols) = Len(ts)
               /\ ss = HandledAs("Sections", "record")
               /\ fs = HandledAs("Functions", "record")
               /\ ts = HandledAs("StaticSymbols", "record")
               /\ \A k \in 1..Len(ss) :
                    /\ map.sections[k].name = Tokens(lines[ss[k]])[3]
                    /\ map.sections[k] = SectionsLine(lines[ss[k]]).rec
               /\ \A k \in 1..Len(fs) :
                    /\ map.functions[k].symbol = Tokens(lines[fs[k]])[2]
                    /\ map.functions[k] =
                         FunctionsLine(lines[fs[k]], load_address, build).rec
               /\ \A k \in 1..Len(ts) :
                    /\ map.static_symbols[k].symbol = Tokens(lines[ts[k]])[2]
                    /\ map.static_symbols[k] =
                         StaticSymbolsLine(lines[ts[k]], load_address, build).rec

\* A well-formed file with at least two rows in each table has been loaded.
LoadYieldsTheTablesWitness ==
    /\ pc = "done"
    /\ input \in WellFormedInputs
    /\ result.kind = "Ok"
    /\ Len(result.map.sections) >= 2
    /\ Len(result.map.functions) >= 2
    /\ Len(result.map.static_symbols) >= 2

\* The Rva+Base token of a Functions or StaticSymbols line, as a number.
RawRva(data) == UsizeFromHex(Tokens(data)[3]).val

RvaInvariantOf(recs, origins) ==
    \A k \in 1..Len(recs) :
        LET raw == RawRva(lines[origins[k]])
        IN  IF raw = 0 THEN recs[k].rva = 0
            ELSE /\ recs[k].rva = raw - load_address.val
                 /\ raw - load_address.val >= 0

\* C2: for every Function and StaticSymbol record load produces, the stored
\* rva is 0 if the raw hex RVA token was 0, and otherwise the raw value
\* minus the preferred load address, which is not negative (no wrap-around).
RvaInvariant ==
    /\ RvaInvariantOf(functions, HandledAs("Functions", "record"))
    /\ RvaInvariantOf(static_symbols, HandledAs("StaticSymbols", "record"))

\* The fourth substring of the line is there and is neither CODE nor DATA.
HasBadClass(data) ==
    /\ Len(Tokens(data)) >= 4
    /\ Tokens(data)[4] \notin {<<"C", "O", "D", "E">>, <<"D", "A", "T", "A">>}

\* C3: a data line handled in the Sections stage whose fourth token is
\* neither CODE nor DATA ends the parse at that line with a failure: no
\* record is made of it under any class, no later line is handled, and load
\* gives no MapFile.
MalformedClassRejected ==
    \A i \in 1..Len(handled) :
        ( /\ handled[i].stage = "Sections"
          /\ ~HasText(lines[i], <<"P", "u", "b", "l", "i", "c", "s", " ", "b", "y", " ", "V", "a", "l", "u", "e">>)
          /\ HasText(lines[i], <<"0">>)
          /\ HasBadClass(lines[i]) )
        => /\ Failed(handled[i])
           /\ i = Len(handled)
           /\ pc = "done"
           /\ Failed(result)
           /\ \A k \in 1..Len(sections) : sections[k].name # Tokens(lines[i])[3]

\* A line whose first three fields are good and whose class is not has been
\* handled in the Sections stage.
MalformedClassRejectedWitness ==
    \E i \in 1..Len(handled) :
        /\ handled[i].stage = "Sections"
        /\ lines[i] = BadClassRow
        /\ handled[i].kind = "panic"

\* The MapFile made of the locals of load.
Accumulated ==
    [file_name |-> filename.val, entrypoint |-> entry_point.val,
     preferred_load_addr |-> load_address.val, timestamp |-> timestamp.val,
     sections |-> sections, functions |-> functions,
     static_symbols |-> static_symbols]

ExhaustedReturnsMapFile ==
    (pc = "done" /\ NoLineFailed) =>
        /\ result.kind = "Ok"
        /\ result.map.sections = sections
        /\ result.map.functions = functions
        /\ result.map.static_symbols = static_symbols

AllSet ==
    filename.some /\ entry_point.some /\ load_address.some /\ timestamp.some

\* C5, amended: when the lines are exhausted in whichever stage and no line
\* was malformed, load returns the MapFile holding what has accumulated if
\* the file name, the entry point, the load address and the timestamp have
\* all been set, and otherwise an Err saying which was not found; the entry
\* point is set only by an `entry point at` line of the Functions stage, so
\* an input exhausted in Header, Sections or Functions gives an Err.
ExhaustedReturnsMapFileIfAllSet ==
    (pc = "done" /\ NoLineFailed) =>
        /\ Len(handled) = Len(lines)
        /\ AllSet => result = Ok(Accumulated)
        /\ ~AllSet => result.kind = "Err"
        /\ stage # "StaticSymbols" =>
             /\ ~entry_point.some
             /\ result = Failure("entrypoint not found")

\* The lines were exhausted in the Functions stage, with records made.
ExhaustedReturnsMapFileIfAllSetWitness ==
    /\ pc = "done"
    /\ NoLineFailed
    /\ stage = "Functions"
    /\ functions # <<>>
    /\ result.kind = "Err"

\* The lines of output.idasym, and the records they are to stand for.
OutputLines == Split(output.val, LF)
ExportedRecords == result.map.functions \o result.map.static_symbols

\* The line holds the decimal address, one space and the name.
IsLineOf(l, address, text) ==
    LET sp == Find(l, <<" ">>)
    IN  /\ sp > 0
        /\ FromStrRadix(Slice(l, 0, sp), 10, 10 * UsizeModulus) = Some(address)
        /\ Slice(l, sp + 1, Len(l)) = text

\* C6: export writes exactly one line per record, the functions in their
\* MapFile order and then the static symbols in theirs, none dropped and
\* none moved; each line carries the usize sum rva + preferred_load_addr and
\* then the sanitized name; a further run of export on the same MapFile
\* writes the same text.
ExportKeepsOrder ==
    /\ [](output.some =>
            /\ result.kind = "Ok"
            /\ Len(OutputLines) = Len(ExportedRecords) + 1
            /\ OutputLines[Len(OutputLines)] = <<>>
            /\ \A k \in 1..Len(ExportedRecords) :
                 IsLineOf(OutputLines[k],
                          (ExportedRecords[k].rva
                             + result.map.preferred_load_addr) % UsizeModulus,
                          fix_name_for_ida(DisplayName(ExportedRecords[k].symbol))))
    /\ [](\A k \in 1..Len(runs) :
            /\ runs[k] = "written" <=> result.kind = "Ok"
            /\ runs[k] = "written" => output.some)
    /\ [][(output.some /\ runs' # runs) => output' = output]_vars

\* export has run twice on a MapFile with functions and static symbols.
ExportKeepsOrderWitness ==
    /\ Len(runs) >= 2
    /\ output.some
    /\ Len(result.map.functions) >= 2
    /\ Len(result.map.static_symbols) >= 2
    /\ result.map.functions[1].symbol = DecoratedSymbol

\* The allowed set {A-Z, a-z, 0-9, _, $, ?, @}.
AllowedSet ==
    { "A", "B", "C", "D", "E", "F", "G", "H", "I", "J", "K", "L", "M", "N",
      "O", "P", "Q", "R", "S", "T", "U", "V", "W", "X", "Y", "Z",
      "a", "b", "c", "d", "e", "f", "g", "h", "i", "j", "k", "l", "m", "n",
      "o", "p", "q", "r", "s", "t", "u", "v", "w", "x", "y", "z",
      "0", "1", "2", "3", "4", "5", "6", "7", "8", "9", "_", "$", "?", "@" }

\* C7: the sanitizer maps every character of {A-Z, a-z, 0-9, _, $, ?, @} to
\* itself and every other character to `_`.
SanitizerKeepsAllowedSet ==
    fixed # <<>> =>
        /\ Len(fixed[1]) = Len(name)
        /\ \A i \in 1..Len(name) :
             fixed[1][i] = IF name[i] \in AllowedSet THEN name[i] ELSE "_"

\* C8: sanitizing twice gives what sanitizing once gives,
\* fix_name_for_ida(fix_name_for_ida(s)) = fix_name_for_ida(s).
SanitizerIdempotent ==
    \A k \in 2..Len(fixed) : fixed[k] = fixed[1]

\* A name of which the first pass replaced a character has been sanitized
\* twice.
SanitizerIdempotentWitness ==
    /\ Len(fixed) >= 2
    /\ Len(name) >= 2
    /\ fixed[1] # name
    /\ \E i \in 1..Len(name) : fixed[1][i] = name[i] /\ name[i] # "_"

StageRank(st) ==
    CASE st = "Header" -> 0 [] st = "Sections" -> 1
      [] st = "Functions" -> 2 [] st = "StaticSymbols" -> 3

\* C9: the stage only moves forward along Header, Sections, Functions,
\* StaticSymbols, one step at a time; the lines are handled by stages in
\* that order, so a stage once left handles no later line; once Functions
\* is entered no section is appended, and StaticSymbols is never left.
StageOnlyForward ==
    /\ [][StageRank(stage') - StageRank(stage) \in {0, 1}]_vars
    /\ [](\A i \in 1..Len(handled) : \A j \in i..Len(handled) :
            StageRank(handled[i].stage) <= StageRank(handled[j].stage))
    /\ [][StageRank(stage) >= 2 => sections' = sections]_vars
    /\ [][stage = "StaticSymbols" =>
            stage' = "StaticSymbols" /\ functions' = functions]_vars

\* Lines with the text of a section row and of the Publics by Value caption
\* have been handled after their stages were left.
StageOnlyForwardWitness ==
    /\ stage = "StaticSymbols"
    /\ \E i \in 1..Len(handled) :
         /\ lines[i] \in {PublicsCaption, PublicsWithZero, ExtraSectionRow}
         /\ handled[i].stage = "StaticSymbols"
    /\ sections # <<>>
    /\ functions # <<>>

\* The number of places where text stands in s.
Occurrences(s, text) ==
    Cardinality({ i \in 0..(Len(s) - Len(text)) :
                    \A j \in 1..Len(text) : s[i + j] = text[j] })

\* C10: load splits the input at CR LF only, never at a lone LF: the lines
\* are the stretches between the CR LF pairs; an input with LF line endings
\* alone is one single line, line 1, and load never returns a MapFile for it.
SplitsAtCrLfOnly ==
    /\ Len(lines) = Occurrences(input, CRLF) + 1
    /\ JoinLines(lines, CRLF) = input \o CRLF
    /\ Occurrences(input, <<"\r">>) = 0 =>
         /\ Len(lines) = 1
         /\ lines[1] = input
         /\ Len(handled) <= 1
         /\ pc = "done" => result = Failure("entrypoint not found")

\* A whole file with LF line endings has been given to load.
SplitsAtCrLfOnlyWitness ==
    /\ pc = "done"
    /\ Occurrences(input, <<"\r">>) = 0
    /\ Occurrences(input, LF) >= 12
    /\ HasText(input, <<"e", "n", "t", "r", "y", " ", "p", "o", "i", "n", "t", " ", "a", "t">>)
    /\ handled = <<[stage |-> "Header", kind |-> "set"]>>

\* ------------------------------------------------------------------------
\* The lines of the tables, read without the scanner.
\* ------------------------------------------------------------------------

\* The line holds the text that makes the stage move on.
IsSentinel(st, data) ==
    \/ st = "Sections" /\ HasText(data, <<"P", "u", "b", "l", "i", "c", "s", " ", "b", "y", " ", "V", "a", "l", "u", "e">>)
    \/ st = "Functions" /\ HasText(data, <<"e", "n", "t", "r", "y", " ", "p", "o", "i", "n", "t", " ", "a", "t">>)

\* A line of a table stage that is not its sentinel and holds a '0'.
Qualifies(st, data) ==
    st # "Header" /\ ~IsSentinel(st, data) /\ HasText(data, <<"0">>)

\* The fields of the line end before the last required one: fewer than four
\* in Sections; in the other stages fewer than three, or after the RVA
\* nothing but single-character flags.
LacksField(st, data) ==
    LET toks == Tokens(data)
    IN  IF st = "Sections" THEN Len(toks) < 4
        ELSE Len(toks) < 3 \/ \A k \in 4..Len(toks) : Len(toks[k]) = 1

\* The message naming the first field the line ends before.
MissingFieldMessage(st, data) ==
    LET n == Len(Tokens(data))
    IN  IF st = "Sections"
        THEN CASE n = 1 -> "no length was found"
               [] n = 2 -> "no symbol was found"
               [] OTHER -> "no class was found"
        ELSE CASE n = 1 -> "no symbol was found"
               [] n = 2 -> "no rva was found"
               [] OTHER -> "no libobj was found"

MissingFieldMessages ==
    { "no address was found", "no length was found", "no symbol was found",
      "no class was found", "no rva was found", "no libobj was found" }

\* The token is <decimal u16>:<hex usize>, possibly with more after a
\* second ':'.
WellFormedAddress(tok) ==
    LET parts == Split(tok, <<":">>)
    IN  /\ Len(parts) >= 2
        /\ ParseU16(parts[1]).some
        /\ UsizeFromHex(parts[2]).some

\* The Rva+Base token is a hex number that is 0 or not below the load
\* address.
RvaInRange(tok) ==
    /\ UsizeFromHex(tok).some
    /\ UsizeFromHex(tok).val = 0 \/ UsizeFromHex(tok).val >= load_address.val

RvaUnderflows(tok) == UsizeFromHex(tok).some /\ ~RvaInRange(tok)

\* The tokens that are on the line are consumed without failure.
PresentTokensParse(st, data) ==
    LET toks == Tokens(data)
    IN  /\ WellFormedAddress(toks[1])
        /\ (st = "Sections" /\ Len(toks) >= 2) =>
             UsizeFromHex(SubSeq(toks[2], 1, Len(toks[2]) - 1)).some
        /\ (st # "Sections" /\ Len(toks) >= 3) =>
             /\ UsizeFromHex(toks[3]).some
             /\ RvaInRange(toks[3]) \/ build = "release"

\* C11 as stated: a qualifying data line that lacks a required field makes
\* load return an error value (not a record, not a crash), the MissingField
\* failure naming the field.
MissingFieldIsAnErr ==
    \A i \in 1..Len(handled) :
        ( /\ Qualifies(handled[i].stage, lines[i])
          /\ LacksField(handled[i].stage, lines[i]) )
        => /\ handled[i].kind = "Err"
           /\ PresentTokensParse(handled[i].stage, lines[i]) =>
                result.msg \in MissingFieldMessages

\* C11, amended: a qualifying data line whose fields end before a required
\* one never makes a record and ends load with a failure.  When the tokens
\* on the line are consumed without failure, it is the Err `no <field> was
\* found` naming the first field not set (libobj also when only flags follow
\* the RVA).  Otherwise it is the failure of the token: an Err, or a panic
\* when the first token has no ':' or when, with overflow checks, the RVA is
\* below the load address.  The address is never reported missing.  A record
\* made of a line without single-character tokens has the empty flags.
MissingFieldReported ==
    /\ \A i \in 1..Len(handled) :
         LET st == handled[i].stage
             toks == Tokens(lines[i])
         IN  (Qualifies(st, lines[i]) /\ LacksField(st, lines[i])) =>
                /\ Failed(handled[i])
                /\ i = Len(handled)
                /\ pc = "done"
                /\ result.kind = handled[i].kind
                /\ result # Failure("no address was found")
                /\ PresentTokensParse(st, lines[i]) =>
                     result = Failure(MissingFieldMessage(st, lines[i]))
                /\ result.kind = "panic" <=>
                     \/ ~HasText(toks[1], <<":">>)
                     \/ /\ st # "Sections"
                        /\ Len(toks) >= 3
                        /\ WellFormedAddress(toks[1])
                        /\ RvaUnderflows(toks[3])
                        /\ build = "debug"
    /\ \A st \in {"Functions", "StaticSymbols"} :
         LET recs == IF st = "Functions" THEN functions ELSE static_symbols
             origins == HandledAs(st, "record")
         IN  \A k \in 1..Len(recs) :
                (\A j \in 4..Len(Tokens(lines[origins[k]])) :
                    Len(Tokens(lines[origins[k]])[j]) # 1)
                => recs[k].flags = <<>>

\* A Publics by Value line with a flag and no provenance has ended load with
\* `no libobj was found`, after a record without flags was made.
MissingFieldReportedWitness ==
    /\ \E i \in 1..Len(handled) :
         /\ handled[i].stage = "Functions"
         /\ lines[i] = FlagsOnlyRow
    /\ result = Failure("no libobj was found")
    /\ \E k \in 1..Len(sections) : sections[k].class = "Data"
    /\ functions # <<>>

\* The records of each list are as many as the lines handled as records.
RecordsAreOfDataLines ==
    /\ Len(sections) = Len(HandledAs("Sections", "record"))
    /\ Len(functions) = Len(HandledAs("Functions", "record"))
    /\ Len(static_symbols) = Len(HandledAs("StaticSymbols", "record"))

\* C12 as stated: in Sections, Functions and StaticSymbols a non-sentinel
\* line is processed as a data line if and only if it holds at least one
\* digit '0'-'9'; every other line is skipped without error and appends no
\* record.
DataLineIffDigit ==
    /\ \A i \in 1..Len(handled) :
         (handled[i].stage # "Header"
            /\ ~IsSentinel(handled[i].stage, lines[i]))
         => (handled[i].kind = "skip" <=> ~HasDigit(lines[i]))
    /\ RecordsAreOfDataLines

\* C12, amended: in Sections, Functions and StaticSymbols a non-sentinel
\* line is processed as a data line (it makes a record or fails) if and only
\* if it holds the character '0'; every other line, also one holding other
\* digits, is skipped without error and appends no record.
DataLineIffZero ==
    /\ \A i \in 1..Len(handled) :
         (handled[i].stage # "Header"
            /\ ~IsSentinel(handled[i].stage, lines[i]))
         => /\ handled[i].kind = "skip" <=> ~HasText(lines[i], <<"0">>)
            /\ handled[i].kind \in {"skip", "record", "Err", "panic"}
    /\ RecordsAreOfDataLines

\* A row with digits and no '0' was skipped in the Publics by Value table,
\* and load went on to the end of the file.
DataLineIffZeroWitness ==
    /\ pc = "done"
    /\ result.kind = "Ok"
    /\ \E i \in 1..Len(handled) :
         /\ lines[i] = NoZeroRow
         /\ handled[i] = [stage |-> "Functions", kind |-> "skip"]
    /\ Len(functions) >= 2

\* The places (from 1) of the first and of the last c of the line, 0 where
\* the line has none.
FirstPlace(data, c) ==
    LET at == { i \in 1..Len(data) : data[i] = c }
    IN  IF at = {} THEN 0 ELSE CHOOSE i \in at : \A j \in at : i <= j

LastPlace(data, c) ==
    LET at == { i \in 1..Len(data) : data[i] = c }
    IN  IF at = {} THEN 0 ELSE CHOOSE i \in at : \A j \in at : j <= i

HasBothParentheses(data) == FirstPlace(data, "(") > 0 /\ FirstPlace(data, ")") > 0

\* C13 as stated: for every line 3 holding both parentheses, also one with
\* more than one `)`, the timestamp stored is the text strictly between the
\* first `(` and the character before the last `)` (stated for the lines
\* on which that text exists: the last `)` at least two places after the
\* first `(`).
TimestampUpToLastParen ==
    ( /\ Len(handled) >= 3
      /\ HasBothParentheses(lines[3])
      /\ LastPlace(lines[3], ")") >= FirstPlace(lines[3], "(") + 2 ) =>
        /\ handled[3].kind = "set"
        /\ timestamp = Some(SubSeq(lines[3], FirstPlace(lines[3], "(") + 1,
                                   LastPlace(lines[3], ")") - 2))

\* C13, amended: for every line 3 whose first `)` stands at least two places
\* after its first `(`, the timestamp stored, and returned in the MapFile,
\* is the text strictly between the first `(` and the character before the
\* first `)`; where the first `)` stands before or right after the first
\* `(`, load panics at line 3.
TimestampUpToFirstParen ==
    (Len(handled) >= 3 /\ HasBothParentheses(lines[3])) =>
        LET open == FirstPlace(lines[3], "(")
            close == FirstPlace(lines[3], ")")
        IN  IF close >= open + 2
            THEN /\ handled[3].kind = "set"
                 /\ timestamp = Some(SubSeq(lines[3], open + 1, close - 2))
                 /\ result.kind = "Ok" =>
                      result.map.timestamp = SubSeq(lines[3], open + 1, close - 2)
            ELSE /\ handled[3].kind = "panic"
                 /\ Len(handled) = 3
                 /\ result.kind = "panic"
                 /\ timestamp = None

\* A file whose line 3 has two `)` was loaded, with the timestamp `Th` of
\* `(Thu) (x)`.
TimestampUpToFirstParenWitness ==
    /\ Len(lines) >= 3
    /\ lines[3] = TwoParenTimestampLine
    /\ result.kind = "Ok"
    /\ result.map.timestamp = <<"T", "h">>

\* The place (from 1) where text first stands on the line, 0 if nowhere.
PlaceOf(data, text) ==
    LET at == { i \in 1..(Len(data) - Len(text) + 1) :
                  \A j \in 1..Len(text) : data[i + j - 1] = text[j] }
    IN  IF at = {} THEN 0 ELSE CHOOSE i \in at : \A j \in at : i <= j

HexDigits ==
    { "0", "1", "2", "3", "4", "5", "6", "7", "8", "9",
      "a", "b", "c", "d", "e", "f", "A", "B", "C", "D", "E", "F" }

\* The number the hex digits stand for.
RECURSIVE HexValue(_)
HexValue(digits) ==
    IF digits = <<>> THEN 0
    ELSE 16 * HexValue(SubSeq(digits, 1, Len(digits) - 1))
         + DigitValue(digits[Len(digits)])

\* The text is a hexadecimal integer of a usize: hex digits, at least one,
\* possibly after a '+', of a value that fits.
Unsigned(text) == IF text # <<>> /\ text[1] = "+" THEN Tail(text) ELSE text

IsHexNumber(text) ==
    /\ Unsigned(text) # <<>>
    /\ \A i \in 1..Len(Unsigned(text)) : Unsigned(text)[i] \in HexDigits
    /\ HexValue(Unsigned(text)) < UsizeModulus

\* The text of line 5 after the marker `is `.
AfterMarker(data) ==
    SubSeq(data, PlaceOf(data, <<"i", "s", " ">>) + 3, Len(data))

\* C14: load fails with the error value of a missing timestamp when line 3
\* lacks `(` or lacks `)`, and with that of a missing load address when
\* line 5 lacks the marker `is ` or the text after the marker is no valid
\* hexadecimal integer; otherwise preferred_load_addr is the base-16 value
\* of the text after `is `.
HeaderErrorsReturned ==
    /\ (Len(handled) >= 3 /\ ~HasBothParentheses(lines[3])) =>
          /\ handled[3].kind = "Err"
          /\ Len(handled) = 3
          /\ pc = "done"
          /\ result = Failure("there was no timestamp on line 3")
    /\ Len(handled) >= 5 =>
          IF PlaceOf(lines[5], <<"i", "s", " ">>) = 0
          THEN /\ handled[5].kind = "Err"
               /\ Len(handled) = 5
               /\ pc = "done"
               /\ result = Failure("there was no preferred load address statement on line 5")
          ELSE IF ~IsHexNumber(AfterMarker(lines[5]))
          THEN /\ handled[5].kind = "Err"
               /\ Len(handled) = 5
               /\ pc = "done"
               /\ result = Failure("unable to get preferred load address from line 5")
          ELSE /\ handled[5].kind = "set"
               /\ load_address = Some(HexValue(Unsigned(AfterMarker(lines[5]))))
               /\ result.kind = "Ok" =>
                    result.map.preferred_load_addr =
                        HexValue(Unsigned(AfterMarker(lines[5])))
    /\ Len(handled) < 5 => load_address = None

\* A line 5 with a space after its number has ended load, the timestamp of
\* line 3 being set.
HeaderErrorsReturnedWitness ==
    /\ Len(handled) = 5
    /\ lines[5] = TrailingLoadAddressLine
    /\ timestamp.some
    /\ result = Failure("unable to get preferred load address from line 5")

\* C15: the scanner leaves Header exactly when it handles line 7, whatever
\* the text of that line: lines 1 to 7 are all handled by the Header
\* handler, line 7 sets no field and makes no record, and line 8 is the
\* first line handled by the Sections stage.
LeavesHeaderAtLineSeven ==
    /\ [](\A i \in 1..Len(handled) :
            /\ i <= 7 => handled[i].stage = "Header"
            /\ i = 7 => handled[i].kind = "stage"
            /\ i = 8 => handled[i].stage = "Sections"
            /\ i >= 8 => handled[i].stage # "Header")
    /\ [](stage = "Header" <=> Len(handled) < 7)
    /\ [][(line = 6 /\ line' = 7) =>
            /\ stage' = "Sections"
            /\ pc' = "scan"
            /\ UNCHANGED <<filename, timestamp, load_address, entry_point,
                           sections, functions, static_symbols, result>>]_vars

\* A file whose line 7 is a row of the Sections table was loaded: the row
\* of line 7 made no record, the one of line 8 did.
LeavesHeaderAtLineSevenWitness ==
    /\ Len(lines) >= 8
    /\ lines[7] = SectionRow(1)
    /\ lines[8] = SectionRow(1)
    /\ result.kind = "Ok"
    /\ Len(result.map.sections) = 1
    /\ handled[7] = [stage |-> "Header", kind |-> "stage"]
    /\ handled[8] = [stage |-> "Sections", kind |-> "record"]

\* The number the decimal digits stand for.
RECURSIVE DecimalValue(_)
DecimalValue(digits) ==
    IF digits = <<>> THEN 0
    ELSE 10 * DecimalValue(SubSeq(digits, 1, Len(digits) - 1))
         + DigitValue(digits[Len(digits)])

\* The segment:offset a field stands for: the decimal number before its
\* first ':' and the hexadecimal number after it, up to a second ':'.
AddressOfField(tok) ==
    LET colon == FirstPlace(tok, ":")
        rest == SubSeq(tok, colon + 1, Len(tok))
        upto == IF FirstPlace(rest, ":") = 0 THEN Len(rest)
                ELSE FirstPlace(rest, ":") - 1
    IN  [seg |-> DecimalValue(SubSeq(tok, 1, colon - 1)),
         addr |-> HexValue(SubSeq(rest, 1, upto))]

\* The fields of the line that hold a digit, and those that hold a '0'.
DigitFields(data) == SelectSeq(Tokens(data), HasDigit)
ZeroFields(data) == SelectSeq(Tokens(data), LAMBDA t : HasText(t, <<"0">>))

AllWellFormed(fields) ==
    \A k \in 1..Len(fields) : WellFormedAddress(fields[k])

\* The sentinel line handled as line i moved the stage from st to next and
\* made no record.
MovedStage(i, next) ==
    /\ handled[i].kind = "stage"
    /\ i < Len(handled) => handled[i + 1].stage = next
    /\ i = Len(handled) => stage = next

\* C16 as stated: a Functions-stage line holding `entry point at` moves the
\* stage to StaticSymbols, makes no Function record, and sets the entry
\* point to the segment:offset of the field of the line that holds a digit
\* (stated for the lines whose fields with a digit are all segment:offset);
\* a Sections-stage line holding `Publics by Value` moves the stage to
\* Functions and makes no record.
EntryPointFromDigitField ==
    /\ RecordsAreOfDataLines
    /\ \A i \in 1..Len(handled) :
         /\ (handled[i].stage = "Sections" /\ IsSentinel("Sections", lines[i]))
              => MovedStage(i, "Functions")
         /\ ( /\ handled[i].stage = "Functions"
              /\ IsSentinel("Functions", lines[i])
              /\ DigitFields(lines[i]) # <<>>
              /\ AllWellFormed(DigitFields(lines[i])) )
              => /\ MovedStage(i, "StaticSymbols")
                 /\ entry_point.some
                 /\ \E k \in 1..Len(DigitFields(lines[i])) :
                      entry_point.val = AddressOfField(DigitFields(lines[i])[k])

\* C16, amended: a Functions-stage line holding `entry point at` whose
\* fields with a '0' are all segment:offset moves the stage to
\* StaticSymbols, makes no Function record, and sets the entry point to the
\* segment:offset (segment decimal, offset hexadecimal) of the last field
\* that holds a '0'; with no such field the entry point stays unset.  If a
\* field with a '0' is no segment:offset, load fails on that line (a panic
\* if the field has no ':').  A Sections-stage line holding `Publics by
\* Value` moves the stage to Functions and makes no record.
EntryPointFromZeroField ==
    /\ RecordsAreOfDataLines
    /\ (\A i \in 1..Len(handled) :
          ~(handled[i].stage = "Functions" /\ handled[i].kind = "stage"))
         => entry_point = None
    /\ \A i \in 1..Len(handled) :
         /\ (handled[i].stage = "Sections" /\ IsSentinel("Sections", lines[i]))
              => MovedStage(i, "Functions")
         /\ (handled[i].stage = "Functions" /\ IsSentinel("Functions", lines[i]))
              => LET zs == ZeroFields(lines[i])
                 IN  IF AllWellFormed(zs)
                     THEN /\ MovedStage(i, "StaticSymbols")
                          /\ entry_point =
                               IF zs = <<>> THEN None
                               ELSE Some(AddressOfField(zs[Len(zs)]))
                          /\ result.kind = "Ok" =>
                               result.map.entrypoint = entry_point.val
                     ELSE /\ Failed(handled[i])
                          /\ i = Len(handled)
                          /\ result.kind = handled[i].kind
                          /\ (\E k \in 1..Len(zs) : ~HasText(zs[k], <<":">>))
                               => result.kind = "panic"

\* An `entry point at` line with two fields holding a '0' was handled in
\* the Functions stage: the entry point is that of the second field.
EntryPointFromZeroFieldWitness ==
    /\ \E i \in 1..Len(handled) :
         /\ lines[i] = EntryPointTwoFields
         /\ handled[i] = [stage |-> "Functions", kind |-> "stage"]
    /\ entry_point = Some([seg |-> 2, addr |-> 32])
    /\ stage = "StaticSymbols"
    /\ functions # <<>>
    /\ sections # <<>>

\* The records of the Functions and StaticSymbols stages, each with the
\* tokens of the line it was made of.
SymbolRecords ==
    LET withTokens(recs, origins) ==
            [k \in 1..Len(recs) |->
                [rec |-> recs[k], toks |-> Tokens(lines[origins[k]])]]
    IN  withTokens(functions, HandledAs("Functions", "record"))
        \o withTokens(static_symbols, HandledAs("StaticSymbols", "record"))

IsAbsoluteToken(tok) ==
    HasText(tok, <<"<", "a", "b", "s", "o", "l", "u", "t", "e", ">">>)

\* The places after the RVA token of the tokens holding <absolute>, and of
\* the other tokens that are no single character.
AbsolutePlaces(toks) == { k \in 4..Len(toks) : IsAbsoluteToken(toks[k]) }
ProvenancePlaces(toks) ==
    { k \in 4..Len(toks) : Len(toks[k]) # 1 /\ ~IsAbsoluteToken(toks[k]) }

Last(S) == CHOOSE k \in S : \A j \in S : j <= k

\* C17 as stated: a token after the RVA token that holds <absolute> makes
\* the libobj of the record Absolute, whatever tokens follow it on the line.
AbsoluteWhateverFollows ==
    \A r \in 1..Len(SymbolRecords) :
        AbsolutePlaces(SymbolRecords[r].toks) # {} =>
            SymbolRecords[r].rec.libobj = Absolute

\* C17, amended: a token after the RVA token that holds <absolute> sets the
\* libobj of the record to Absolute, and the tokens after it are still
\* consumed: a single character is appended to flags, and a later token of
\* another length that holds no <absolute> replaces the libobj.  The record
\* has libobj = Absolute if and only if no such token follows the last
\* token holding <absolute>.
AbsoluteUnlessReplaced ==
    \A r \in 1..Len(SymbolRecords) :
        LET toks == SymbolRecords[r].toks
            rec == SymbolRecords[r].rec
        IN  AbsolutePlaces(toks) # {} =>
              /\ rec.libobj = Absolute <=>
                   \A k \in ProvenancePlaces(toks) : k < Last(AbsolutePlaces(toks))
              /\ rec.libobj # Absolute => rec.libobj.kind = "LibObj"
              /\ rec.flags = SelectSeq(SubSeq(toks, 4, Len(toks)),
                                       LAMBDA t : Len(t) = 1)

\* A record was made of a row with a flag after <absolute>: it is absolute
\* and has the flag.
AbsoluteUnlessReplacedWitness ==
    \E r \in 1..Len(SymbolRecords) :
        /\ SymbolRecords[r].toks = Tokens(AbsoluteThenFlagRow)
        /\ SymbolRecords[r].rec.libobj = Absolute
        /\ SymbolRecords[r].rec.flags = <<<<"f">>>>

\* The provenance a token stands for by its shape: an object alone if it
\* has no ':', else the library before the first ':' and the object
\* between the first ':' and the second, or the end.
ProvenanceOfToken(tok) ==
    LET colon == FirstPlace(tok, ":")
        rest == SubSeq(tok, colon + 1, Len(tok))
        upto == IF FirstPlace(rest, ":") = 0 THEN Len(rest)
                ELSE FirstPlace(rest, ":") - 1
    IN  IF colon = 0 THEN LibObj(None, tok)
        ELSE LibObj(Some(SubSeq(tok, 1, colon - 1)), SubSeq(rest, 1, upto))

\* C18: in a Functions or StaticSymbols data line, every token after the
\* RVA token that holds no <absolute> is classified by its shape.  A token
\* of length 1 is appended to flags, so flags holds all single-character
\* tokens in input order.  Any other token is the provenance token, split
\* on ':': one part gives LibObj(None, part), two or more give
\* LibObj(Some(first), second), the other parts being ignored; the libobj of
\* the record is that of the last token that is no flag.
TokensClassifiedByShape ==
    \A r \in 1..Len(SymbolRecords) :
        LET toks == SymbolRecords[r].toks
            rec == SymbolRecords[r].rec
            given == AbsolutePlaces(toks) \cup ProvenancePlaces(toks)
        IN  /\ rec.flags = SelectSeq(SubSeq(toks, 4, Len(toks)),
                                     LAMBDA t : Len(t) = 1)
            /\ given # {}
            /\ Last(given) \in ProvenancePlaces(toks) =>
                 rec.libobj = ProvenanceOfToken(toks[Last(given)])

\* A record was made of a Static symbols row with a provenance of three
\* parts between two flags, after records with one flag, with none, with a
\* library and without.
TokensClassifiedByShapeWitness ==
    /\ \E r \in 1..Len(static_symbols) :
         /\ static_symbols[r].flags = << <<"x">>, <<"y">> >>
         /\ static_symbols[r].libobj = LibObj(Some(<<"a">>), <<"b">>)
    /\ \E r \in 1..Len(functions) :
         functions[r].flags = <<>> /\ ~functions[r].libobj.lib.some
    /\ \E r \in 1..Len(functions) :
         functions[r].flags = << <<"f">> >> /\ functions[r].libobj.lib.some

\* C19: for every line that does not hold `entry point at` and every load
\* address, the Functions arm and the StaticSymbols arm have the same
\* outcome: both skip the line, both fail (in the same way), or both append
\* a record with the same addr, symbol, rva, flags and libobj.
SameOutcomeInBothStages ==
    (Len(handled) = 2 /\ ~HasText(input, <<"e", "n", "t", "r", "y", " ", "p", "o", "i", "n", "t", " ", "a", "t">>)) =>
        /\ handled[1].kind = handled[2].kind
        /\ handled[1].kind \in {"skip", "Err", "panic", "record"}
        /\ handled[1].outcome = handled[2].outcome
        /\ Len(functions) = Len(static_symbols)
        /\ handled[1].kind = "record" <=> Len(functions) = 1
        /\ \A k \in 1..Len(functions) :
             /\ functions[k].addr = static_symbols[k].addr
             /\ functions[k].symbol = static_symbols[k].symbol
             /\ functions[k].rva = static_symbols[k].rva
             /\ functions[k].flags = static_symbols[k].flags
             /\ functions[k].libobj = static_symbols[k].libobj

\* Both arms have made a record of a row with flags, a provenance of three
\* parts and an Rva+Base below the load address, which wrapped.
SameOutcomeInBothStagesWitness ==
    /\ pc = "tok"
    /\ input = ThreePartRow
    /\ load_address = Some(48)
    /\ HandledBy("Functions") /\ HandledBy("StaticSymbols")
    /\ Len(functions) = 1
    /\ Len(static_symbols) = 1
    /\ functions[1].flags = << <<"x">>, <<"y">> >>
    /\ functions[1].rva > 48

\* The line is a data line of a symbol table whose first token is a
\* segment:offset and whose third is a hex number that is not 0 and below
\* the load address.
HasRvaBelowLoadAddress(st, data) ==
    /\ st \in {"Functions", "StaticSymbols"}
    /\ Qualifies(st, data)
    /\ Len(Tokens(data)) >= 3
    /\ WellFormedAddress(Tokens(data)[1])
    /\ RvaUnderflows(Tokens(data)[3])

\* C20: a Functions or StaticSymbols data line whose raw RVA is not 0 and
\* smaller than the preferred load address is a format error: load returns
\* a failure for it, and neither stores a wrapped rva nor panics.
UnderflowIsFormatError ==
    \A i \in 1..Len(handled) :
        HasRvaBelowLoadAddress(handled[i].stage, lines[i]) =>
            /\ handled[i].kind = "Err"
            /\ i = Len(handled)
            /\ result.kind = "Err"

\* C21: whenever the scanner is in a stage other than Header, the file
\* name, the timestamp and the load address have all been set; hence
\* `load_address.unwrap()` never fails, and the final failures `filename /
\* timestamp / preferred load address not found` come only of inputs that
\* end before the scanner leaves Header, the file-name one never.  Of the
\* other two the formula says more: an input that ends in Header has no
\* entry point and fails with `entrypoint not found`, which is looked at
\* before them, so neither of them comes of any input.
HeaderFieldsSetOnceLeft ==
    /\ stage # "Header" =>
         filename.some /\ timestamp.some /\ load_address.some
    /\ line >= 1 => filename.some
    /\ result # Panic("unwrap on a None value")
    /\ result # Failure("filename not found")
    /\ (pc = "done" /\ stage = "Header" /\ NoLineFailed) =>
         result = Failure("entrypoint not found")
    /\ result \notin { Failure("timestamp not found"),
                       Failure("preferred load address not found") }

\* In the Static symbols table, past rows whose RVA had the load address
\* subtracted, with the three header fields set.
HeaderFieldsSetOnceLeftWitness ==
    /\ stage = "StaticSymbols"
    /\ filename.some /\ timestamp.some /\ load_address.some
    /\ \E k \in 1..Len(functions) : functions[k].rva > 0
    /\ \E k \in 1..Len(static_symbols) : static_symbols[k].rva > 0
    /\ pc = "done"
    /\ result.kind = "Ok"

\* The lines the exported records were made of, functions first, and the
\* address written on a line of output.idasym: the decimal number before
\* its first space.
ExportedOrigins ==
    HandledAs("Functions", "record") \o HandledAs("StaticSymbols", "record")

EmittedAddress(l) == DecimalValue(SubSeq(l, 1, FirstPlace(l, " ") - 1))

\* The Rva+Base token of the line, read as hex digits.
RawRvaOf(data) == HexValue(Unsigned(Tokens(data)[3]))

\* C22: for every Function and StaticSymbol made of a line whose raw RVA r
\* is not 0 and at least the preferred load address, the address export
\* writes equals r; for a record whose raw RVA is 0 the address written is
\* the preferred load address itself, not 0 (a load address of 0 apart).
ExportRestoresRawRva ==
    output.some =>
        /\ Len(ExportedOrigins) = Len(ExportedRecords)
        /\ Len(OutputLines) = Len(ExportedOrigins) + 1
        /\ \A k \in 1..Len(ExportedOrigins) :
             LET r == RawRvaOf(lines[ExportedOrigins[k]])
                 base == result.map.preferred_load_addr
             IN  /\ (r # 0 /\ r >= base) =>
                       /\ EmittedAddress(OutputLines[k]) = r
                       /\ ExportedRecords[k].rva = r - base
                 /\ r = 0 =>
                       /\ EmittedAddress(OutputLines[k]) = base
                       /\ ExportedRecords[k].rva = 0
                       /\ base # 0 => EmittedAddress(OutputLines[k]) # 0

\* export has written a file with an absolute symbol, whose Rva+Base is 0
\* and whose line has the load address 16, after a symbol of Rva+Base 0x20,
\* whose line has 32.
ExportRestoresRawRvaWitness ==
    /\ output.some
    /\ result.map.preferred_load_addr = 16
    /\ \E k \in 1..Len(ExportedOrigins) :
         /\ lines[ExportedOrigins[k]] = AbsoluteRow
         /\ EmittedAddress(OutputLines[k]) = 16
    /\ lines[ExportedOrigins[1]] = FunctionRow(1)
    /\ ExportedRecords[1].rva = 16
    /\ EmittedAddress(OutputLines[1]) = 32

====
